---- MODULE Spec2Model ----
(***************************************************************************)
(* State-machine model of the Uploader repository:                         *)
(*   - the upload widget (frontend/src/components/UploaderWrapper.tsx):    *)
(*     the item list, the 'uploading' flag, the requests in flight and the *)
(*     Promise.all join of each batch;                                     *)
(*   - the relay (server entry point): GET / and POST /upload.             *)
(* The widget and the relay are not composed in the code; each has its own *)
(* next-state relation and specification.                                  *)
(***************************************************************************)
EXTENDS Integers, Sequences, FiniteSets, TLC

\* ------------------------------------------------------------------ bounds
\* Most requests the relay receives over one run.
MaxRelayRequests == 3
\* Most files dropped over one run (each gets a fresh preview URL).
MaxUrls == 3
\* Most upload triggers over one run.
MaxBatches == 2
\* Largest byte total a progress event reports.
MaxTotal == 2
\* Numbers of files one drop can carry.
DropSizes == {0, 1, 2}
\* Tokens produced by Math.random().toString(36).substring(7): nothing in the
\* code keeps two calls from producing the same token.
Ids == {"a", "b"}
\* remoteUrl of an item that was never uploaded (the field is optional).
NoUrl == "none"
\* secure_url values the provider can answer with.
RemoteUrls == {"r1", "r2"}
\* Numbers of files one POST /upload can carry.
FileCounts == {0, 1, 2}
\* Responses of the provider SDK to an upload call.
ProviderResults == {"res1", "res2"}
\* result of a response that carries none.
NoResult == "none"

VARIABLES
    selectedFiles,  \* useState<UploadableFile[]>: the item list
    uploading,      \* useState(false): the batch-in-flight flag
    requests,       \* axios.post calls in flight: [batch, id, url]
    batches,        \* one record per handleUpload call: its Promise.all
    nextUrl,        \* number of blob URLs URL.createObjectURL has produced
    added,          \* history: files added by drops since the last clear
    removed,        \* history: items removed by removeFile since the last clear
    late,           \* history: a callback ran after its item had left the list
    revoked,        \* blob URLs URL.revokeObjectURL has been called on
    mounted,        \* the component is mounted
    relayUp,        \* the relay process is running
    relayNext,      \* number of requests the relay has received
    relayFiles,     \* history: route and req.files.length of each request received
    relayPending,   \* POST /upload handlers awaiting Cloudinary.uploader.upload
    relayCalls,     \* history: provider upload calls made, [rid, path]
    relayResponses, \* responses sent, [rid, status, success, result]
    relayTemp,      \* files multer has written under uploads/ (never removed)
    relayFaults     \* history: requests whose handler promise rejected uncaught

widgetVars == <<selectedFiles, uploading, requests, batches, nextUrl, added, removed, late,
                revoked, mounted>>
relayVars == <<relayUp, relayNext, relayFiles, relayPending, relayCalls, relayResponses,
               relayTemp, relayFaults>>
vars == <<widgetVars, relayVars>>

\* ------------------------------------------------------------- helpers
\* Sequences of exactly n tokens.
SeqsOfLen(S, n) == [1..n -> S]

\* Number of items of the list with the given id.
CountId(files, id) == Cardinality({i \in 1..Len(files) : files[i].id = id})

\* The item request r was issued for is no longer in the list.
Gone(files, r) == \A i \in 1..Len(files) : files[i].url # r.url

\* ------------------------------------------------------------ pure parts
\* A percentage rounded up by adding one to the floor.
percentageRoundedUp(loaded, total) == ((loaded * 100) \div total) + 1

\* Math.floor((loaded * 100) / total)
percentage(loaded, total) == (loaded * 100) \div total

\* acceptedFiles.map(...) of onDrop: one pending item per file, each with its
\* own random id and a fresh blob URL.
newFiles(ids, base) ==
    [i \in 1..Len(ids) |->
        [id |-> ids[i], url |-> base + i, progress |-> 0,
         status |-> "pending", remoteUrl |-> NoUrl]]

\* prev.map(...) of onUploadProgress.
markProgress(prev, id, pct) ==
    [i \in 1..Len(prev) |->
        IF prev[i].id = id
        THEN [prev[i] EXCEPT !.progress = pct, !.status = "uploading"]
        ELSE prev[i]]

\* A success branch that forgets the remote URL.
markSuccessNoUrl(prev, id, secureUrl) ==
    [i \in 1..Len(prev) |->
        IF prev[i].id = id
        THEN [prev[i] EXCEPT !.status = "success", !.progress = 100]
        ELSE prev[i]]

\* prev.map(...) of the success branch of handleUpload.
markSuccess(prev, id, secureUrl) ==
    [i \in 1..Len(prev) |->
        IF prev[i].id = id
        THEN [prev[i] EXCEPT !.status = "success", !.progress = 100,
                             !.remoteUrl = secureUrl]
        ELSE prev[i]]

\* A catch branch that drops the failed item from the list.
markErrorDropping(prev, id) == SelectSeq(prev, LAMBDA f : f.id # id)

\* A catch branch that leaves the progress as it was.
markErrorKeepProgress(prev, id) ==
    [i \in 1..Len(prev) |->
        IF prev[i].id = id THEN [prev[i] EXCEPT !.status = "error"] ELSE prev[i]]

\* prev.map(...) of the catch branch of handleUpload.
markError(prev, id) ==
    [i \in 1..Len(prev) |->
        IF prev[i].id = id
        THEN [prev[i] EXCEPT !.status = "error", !.progress = 0]
        ELSE prev[i]]

\* prev.filter((f) => f.id !== id) of removeFile.
filterOut(prev, id) == SelectSeq(prev, LAMBDA f : f.id # id)

\* A trigger that uploads the first item only.
uploadPromisesFirstOnly(files, b) ==
    {[batch |-> b, id |-> files[i].id, url |-> files[i].url] : i \in 1..Len(files) \cap {1}}

\* selectedFiles.map(async (fileWrapper) => ...): one request per item of the
\* list, carrying the fileWrapper the closure captured.
uploadPromises(files, b) ==
    {[batch |-> b, id |-> files[i].id, url |-> files[i].url] : i \in 1..Len(files)}

\* The preview URLs of the items of a list.
previewUrls(files) == {files[i].url : i \in 1..Len(files)}

\* A cleanup that revokes nothing.
cleanupNothing(files) == {}

\* The cleanup of the effect on [selectedFiles]: it runs when the list is
\* replaced and on unmount, and revokes the URL of every item of the list the
\* effect closed over.
cleanup(files) == previewUrls(files)

\* Requests of batch b still in flight.
InFlight(reqs, b) == {r \in reqs : r.batch = b}

\* The rendering condition of the upload button.
canUpload(files, upl) ==
    /\ ~upl
    /\ Len(files) > 0
    /\ \E i \in 1..Len(files) : files[i].status \in {"pending", "error"}

\* ----------------------------------------------------------------- Init
WidgetInit ==
    /\ selectedFiles = <<>>
    /\ uploading = FALSE
    /\ requests = {}
    /\ batches = <<>>
    /\ nextUrl = 0
    /\ added = 0
    /\ removed = 0
    /\ late = FALSE
    /\ revoked = {}
    /\ mounted = TRUE

\* -------------------------------------------------------------- actions
\* onDrop: the dropzone is rendered only while the list is empty and is
\* disabled while uploading.
onDrop(ids) ==
    /\ mounted
    /\ Len(selectedFiles) < 1
    /\ ~uploading
    /\ nextUrl + Len(ids) <= MaxUrls
    /\ selectedFiles' = selectedFiles \o newFiles(ids, nextUrl)
    /\ revoked' = revoked \cup cleanup(selectedFiles)
    /\ nextUrl' = nextUrl + Len(ids)
    /\ added' = added + Len(ids)
    /\ UNCHANGED <<uploading, requests, batches, removed, late, mounted>>

\* handleUpload up to its await: the button is rendered by canUpload.
handleUpload ==
    /\ mounted
    /\ canUpload(selectedFiles, uploading)
    /\ Len(batches) < MaxBatches
    /\ IF Len(selectedFiles) = 0
       THEN UNCHANGED <<uploading, requests, batches>>
       ELSE /\ uploading' = TRUE
            /\ requests' = requests \cup uploadPromises(selectedFiles, Len(batches) + 1)
            /\ batches' = Append(batches,
                   [joined |-> FALSE, alerts |-> 0, failed |-> 0,
                    issued |-> Len(selectedFiles)])
    /\ UNCHANGED <<selectedFiles, nextUrl, added, removed, late, revoked, mounted>>

\* onUploadProgress of a request in flight; total = 0 stands for an event
\* without a total.
onUploadProgress(r, loaded, total) ==
    /\ mounted
    /\ r \in requests
    /\ IF total = 0
       THEN UNCHANGED <<selectedFiles, revoked>>
       ELSE /\ selectedFiles' = markProgress(selectedFiles, r.id, percentage(loaded, total))
            /\ revoked' = revoked \cup cleanup(selectedFiles)
    /\ late' = (late \/ (total # 0 /\ Gone(selectedFiles, r)))
    /\ UNCHANGED <<uploading, requests, batches, nextUrl, added, removed, mounted>>

\* A join that never reports the batch complete.
joinOnSuccessNever(bt, rest) == bt

\* The batch record after one of its promises fulfilled: Promise.all fulfils
\* when the last one does, and finally runs setUploading(false).
joinOnSuccess(bt, rest) ==
    IF ~bt.joined /\ rest = {} THEN [bt EXCEPT !.joined = TRUE] ELSE bt

\* A join that raises the alert for every rejection.
joinOnFailureAlertEach(bt) ==
    [bt EXCEPT !.joined = TRUE, !.alerts = @ + 1, !.failed = @ + 1]

\* The batch record after one of its promises rejected: Promise.all rejects
\* on the first rejection; catch raises the alert, finally runs
\* setUploading(false).
joinOnFailure(bt) ==
    IF ~bt.joined
    THEN [bt EXCEPT !.joined = TRUE, !.alerts = @ + 1, !.failed = @ + 1]
    ELSE [bt EXCEPT !.failed = @ + 1]

\* The request resolves: the success branch of the item's promise, then the
\* join if this was the last promise of the batch.
requestSucceeds(r, secureUrl) ==
    /\ mounted
    /\ r \in requests
    /\ selectedFiles' = markSuccess(selectedFiles, r.id, secureUrl)
    /\ revoked' = revoked \cup cleanup(selectedFiles)
    /\ requests' = requests \ {r}
    /\ batches' = [batches EXCEPT ![r.batch] = joinOnSuccess(@, InFlight(requests \ {r}, r.batch))]
    /\ uploading' = IF batches'[r.batch].joined /\ ~batches[r.batch].joined
                    THEN FALSE ELSE uploading
    /\ late' = (late \/ Gone(selectedFiles, r))
    /\ UNCHANGED <<nextUrl, added, removed, mounted>>

\* The request rejects: the catch branch of the item's promise, which
\* rethrows, then the join.
requestFails(r) ==
    /\ mounted
    /\ r \in requests
    /\ selectedFiles' = markError(selectedFiles, r.id)
    /\ revoked' = revoked \cup cleanup(selectedFiles)
    /\ requests' = requests \ {r}
    /\ batches' = [batches EXCEPT ![r.batch] = joinOnFailure(@)]
    /\ uploading' = IF batches'[r.batch].joined /\ ~batches[r.batch].joined
                    THEN FALSE ELSE uploading
    /\ late' = (late \/ Gone(selectedFiles, r))
    /\ UNCHANGED <<nextUrl, added, removed, mounted>>

\* resetUploader: the button is rendered while not uploading and the list is
\* not empty.
resetUploader ==
    /\ mounted
    /\ ~uploading
    /\ Len(selectedFiles) > 0
    /\ selectedFiles' = <<>>
    /\ revoked' = revoked \cup cleanup(selectedFiles)
    /\ uploading' = FALSE
    /\ added' = 0
    /\ removed' = 0
    /\ UNCHANGED <<requests, batches, nextUrl, late, mounted>>

\* removeFile(id): the remove button of an item is rendered while not
\* uploading; the handler returns early while uploading.
removeFile(id) ==
    /\ mounted
    /\ \E i \in 1..Len(selectedFiles) : selectedFiles[i].id = id
    /\ ~uploading
    /\ IF uploading
       THEN UNCHANGED <<selectedFiles, removed, revoked>>
       ELSE /\ selectedFiles' = filterOut(selectedFiles, id)
            /\ revoked' = revoked \cup cleanup(selectedFiles)
            /\ removed' = removed + CountId(selectedFiles, id)
    /\ UNCHANGED <<uploading, requests, batches, nextUrl, added, late, mounted>>

\* The component unmounts (the root is torn down): the cleanup of the last
\* effect runs; nothing of the component runs afterwards.
unmount ==
    /\ mounted
    /\ mounted' = FALSE
    /\ revoked' = revoked \cup cleanup(selectedFiles)
    /\ UNCHANGED <<selectedFiles, uploading, requests, batches, nextUrl, added, removed, late>>

Drop == (\E k \in DropSizes : \E ids \in SeqsOfLen(Ids, k) : onDrop(ids)) /\ UNCHANGED relayVars
Upload == handleUpload /\ UNCHANGED relayVars
Progress == (\E r \in requests : \E total \in 0..MaxTotal : \E loaded \in 0..total :
                onUploadProgress(r, loaded, total)) /\ UNCHANGED relayVars
Succeed == (\E r \in requests : \E u \in RemoteUrls : requestSucceeds(r, u)) /\ UNCHANGED relayVars
Fail == (\E r \in requests : requestFails(r)) /\ UNCHANGED relayVars
Clear == resetUploader /\ UNCHANGED relayVars
Remove == (\E id \in Ids : removeFile(id)) /\ UNCHANGED relayVars
Unmount == unmount /\ UNCHANGED relayVars

\* ---------------------------------------------------------------- relay
RelayInit ==
    /\ relayUp = TRUE
    /\ relayNext = 0
    /\ relayFiles = <<>>
    /\ relayPending = {}
    /\ relayCalls = {}
    /\ relayResponses = {}
    /\ relayTemp = 0
    /\ relayFaults = {}

\* What becomes of the process when the promise of the async POST /upload
\* handler rejects: nothing catches it, so it is a process-level fault that
\* either ends the process or leaves it running with the request unanswered.
FaultOutcomes == {"exit", "continue"}
unhandledRejection(outcome) == relayUp' = (outcome # "exit")

\* res.status(200).json({success: true, message: "Server is working fine"})
healthPayload(rid) ==
    [rid |-> rid, route |-> "GET /", status |-> 200, success |-> TRUE, result |-> NoResult]

\* res.status(200).json({success: true, message: "Uploaded successfully", result})
uploadPayload(rid, result) ==
    [rid |-> rid, route |-> "POST /upload", status |-> 200, success |-> TRUE, result |-> result]

\* The path of the last entry of req.files.
lastPath(rid) == <<rid, relayFiles'[rid].files>>

\* req.files[0].path: multer names the temporary file of each entry.
firstPath(rid) == <<rid, 1>>

\* app.get("/")
getRoot ==
    /\ relayUp
    /\ relayNext < MaxRelayRequests
    /\ relayNext' = relayNext + 1
    /\ relayFiles' = Append(relayFiles, [route |-> "GET /", files |-> 0])
    /\ relayResponses' = relayResponses \cup {healthPayload(relayNext + 1)}
    /\ UNCHANGED <<relayUp, relayPending, relayCalls, relayTemp, relayFaults>>

\* app.post("/upload") up to its await: multer stores the k files, then the
\* handler reads req.files[0].path, which throws when the array is empty.
postUpload(k, outcome) ==
    /\ relayUp
    /\ relayNext < MaxRelayRequests
    /\ relayNext' = relayNext + 1
    /\ relayFiles' = Append(relayFiles, [route |-> "POST /upload", files |-> k])
    /\ relayTemp' = relayTemp + k
    /\ IF k = 0
       THEN /\ unhandledRejection(outcome)
            /\ relayFaults' = relayFaults \cup {relayNext + 1}
            /\ UNCHANGED <<relayPending, relayCalls>>
       ELSE /\ relayPending' = relayPending \cup {relayNext + 1}
            /\ relayCalls' = relayCalls \cup {[rid |-> relayNext + 1, path |-> firstPath(relayNext + 1)]}
            /\ UNCHANGED <<relayUp, relayFaults>>
    /\ UNCHANGED relayResponses

\* The provider call resolves: the handler answers 200 with its result.
providerResolves(rid, result) ==
    /\ relayUp
    /\ rid \in relayPending
    /\ relayPending' = relayPending \ {rid}
    /\ relayResponses' = relayResponses \cup {uploadPayload(rid, result)}
    /\ UNCHANGED <<relayUp, relayNext, relayFiles, relayCalls, relayTemp, relayFaults>>

\* A handler that catches the provider error and still answers 200.
providerRejectsAnswered(rid, outcome) ==
    /\ relayUp
    /\ rid \in relayPending
    /\ relayPending' = relayPending \ {rid}
    /\ relayFaults' = relayFaults \cup {rid}
    /\ relayResponses' = relayResponses \cup
           {[rid |-> rid, route |-> "POST /upload", status |-> 200, success |-> TRUE,
             result |-> NoResult]}
    /\ UNCHANGED <<relayUp, relayNext, relayFiles, relayCalls, relayTemp>>

\* The provider call rejects: the await throws and nothing catches it.
providerRejects(rid, outcome) ==
    /\ relayUp
    /\ rid \in relayPending
    /\ relayPending' = relayPending \ {rid}
    /\ relayFaults' = relayFaults \cup {rid}
    /\ unhandledRejection(outcome)
    /\ UNCHANGED <<relayNext, relayFiles, relayCalls, relayResponses, relayTemp>>

Get == getRoot /\ UNCHANGED widgetVars
Post == (\E k \in FileCounts : \E o \in FaultOutcomes : postUpload(k, o)) /\ UNCHANGED widgetVars
ProviderOk == (\E rid \in relayPending : \E res \in ProviderResults : providerResolves(rid, res))
                 /\ UNCHANGED widgetVars
ProviderError == (\E rid \in relayPending : \E o \in FaultOutcomes : providerRejects(rid, o))
                 /\ UNCHANGED widgetVars

Init == WidgetInit /\ RelayInit

Next ==
    \/ Drop
    \/ Upload
    \/ Progress
    \/ Succeed
    \/ Fail
    \/ Clear
    \/ Remove

RelayNext ==
    \/ Get
    \/ Post
    \/ ProviderOk
    \/ ProviderError

\* The widget.
Spec == Init /\ [][Next]_vars

\* The widget, every request in flight eventually answered by the provider.
LiveSpec == Spec /\ WF_vars(Succeed \/ Fail)

\* The widget, with the unmount of the component.
MountSpec == Init /\ [][Next \/ Unmount]_vars

\* The relay.
RelaySpec == Init /\ [][RelayNext]_vars

\* ------------------------------------------------------------ properties
\* Items of the list as a set of positions.
Items == 1..Len(selectedFiles)
Batches == 1..Len(batches)
\* Some request of some batch has failed.
AnyFailure == \E b \in Batches : batches[b].failed > 0
\* Every item of the list has succeeded.
AllSuccess ==
    \A i \in Items :
        /\ selectedFiles[i].status = "success"
        /\ selectedFiles[i].progress = 100
        /\ selectedFiles[i].remoteUrl # NoUrl

\* C1: a batch is reported complete (joined, 'uploading' set back to false)
\* only after every request it issued has finished.
C1_JoinAfterAllFinished ==
    \A b \in Batches : batches[b].joined => InFlight(requests, b) = {}

\* C2: the step handling the failure of the request of item i changes item i
\* only (status error, progress 0); every other item of the list is unchanged.
C2_FailureIsolation ==
    [][\A r \in requests : requestFails(r) =>
          \A i \in Items :
              IF selectedFiles[i].url = r.url
              THEN /\ selectedFiles'[i].status = "error"
                   /\ selectedFiles'[i].progress = 0
              ELSE selectedFiles'[i] = selectedFiles[i]]_vars

\* C3: an item whose progress is 100 has status success.
C3_HundredOnlyOnSuccess ==
    \A i \in Items : selectedFiles[i].progress = 100 => selectedFiles[i].status = "success"

\* C4: every item's progress is an integer in [0,100].
C4_ProgressRange ==
    \A i \in Items : selectedFiles[i].progress \in 0..100
\* A progress event has set an item to a percentage strictly inside the range.
C4_Witness ==
    \E i \in Items : selectedFiles[i].status = "uploading" /\ selectedFiles[i].progress = 50

\* C5: the number of items equals the files added since the last clear minus
\* the items removed; a drop of k files (a step allocating k preview URLs)
\* appends k pending items with progress 0; a step that is no drop, remove or
\* clear (a progress, success or failure callback) keeps the number of items.
C5_ItemCount ==
    /\ [](Len(selectedFiles) = added - removed)
    /\ [][/\ (nextUrl' = nextUrl /\ added' = added /\ removed' = removed)
                => Len(selectedFiles') = Len(selectedFiles)
          /\ nextUrl' # nextUrl =>
                /\ Len(selectedFiles') = Len(selectedFiles) + (nextUrl' - nextUrl)
                /\ SubSeq(selectedFiles', 1, Len(selectedFiles)) = selectedFiles
                /\ \A j \in (Len(selectedFiles) + 1)..Len(selectedFiles') :
                      /\ selectedFiles'[j].status = "pending"
                      /\ selectedFiles'[j].progress = 0]_vars
\* Two files were dropped, one was removed, and a callback of a request whose
\* item had left the list has run.
C5_Witness ==
    late /\ added = 2 /\ removed = 1 /\ Len(selectedFiles) = 1

\* C6: a trigger on N >= 1 items issues exactly N requests, one per item of the
\* list; from an empty list no request is issued and 'uploading' stays false.
C6_RequestCount ==
    [][/\ Len(batches') # Len(batches) =>
             /\ Len(selectedFiles) >= 1
             /\ requests \subseteq requests'
             /\ Cardinality(requests' \ requests) = Len(selectedFiles)
             /\ \A i \in Items :
                   Cardinality({r \in requests' \ requests :
                        r.url = selectedFiles[i].url /\ r.id = selectedFiles[i].id}) = 1
             /\ uploading'
       /\ Len(selectedFiles) = 0 => (requests' \subseteq requests /\ ~uploading /\ ~uploading')]_vars
\* A trigger on two items has issued two requests.
C6_Witness ==
    /\ Len(batches) = 1
    /\ Len(selectedFiles) = 2
    /\ Cardinality(requests) = 2
    /\ uploading

\* C7: removeFile invoked while a request of a triggered batch is in flight
\* leaves the list unchanged; otherwise it removes exactly the items with the
\* given id.
C7_RemoveDisabledInFlight ==
    [][\A id \in Ids : removeFile(id) =>
          IF requests # {}
          THEN selectedFiles' = selectedFiles
          ELSE selectedFiles' = SelectSeq(selectedFiles, LAMBDA f : f.id # id)]_vars

\* C8: a batch raises the failure alert exactly once if a request of it has
\* failed and never otherwise; requests are issued by an upload trigger only.
C8_AlertOnceNoRetry ==
    /\ [](\A b \in Batches : batches[b].alerts = IF batches[b].failed > 0 THEN 1 ELSE 0)
    /\ [][requests' \subseteq requests \/ (handleUpload /\ Len(batches') = Len(batches) + 1)]_vars
\* Both requests of a batch have failed and the alert was raised once.
C8_Witness ==
    \E b \in Batches : batches[b].failed = 2 /\ batches[b].alerts = 1

\* C9: after a trigger on a list of pending items, if no request fails, then
\* eventually every item has status success, progress 100 and a remote URL and
\* 'uploading' is false; until then no item is in status error.
C9_Triggered ==
    /\ uploading
    /\ Len(batches) >= 1
    /\ ~AnyFailure
    /\ \A i \in Items : selectedFiles[i].status = "pending"
    /\ InFlight(requests, Len(batches)) = uploadPromises(selectedFiles, Len(batches))
C9_SuccessfulBatch ==
    /\ C9_Triggered ~> (AnyFailure \/ (~uploading /\ AllSuccess /\ requests = {}))
    /\ [](~AnyFailure => \A i \in Items : selectedFiles[i].status # "error")
\* A batch of two items has completed with every request successful.
C9_Witness ==
    /\ Len(selectedFiles) = 2
    /\ Len(batches) = 1
    /\ batches[1].joined
    /\ ~AnyFailure
    /\ ~uploading
    /\ AllSuccess

\* C10: a POST /upload whose file array is empty leaves the relay running.
C10_ZeroFilesKeepRelayUp ==
    [][\A o \in FaultOutcomes : postUpload(0, o) => relayUp']_vars

\* Requests the relay has received, by route.
RelayPosts == {rid \in 1..relayNext : relayFiles[rid].route = "POST /upload"}
RelayGets == {rid \in 1..relayNext : relayFiles[rid].route = "GET /"}
ResponsesTo(rid) == {resp \in relayResponses : resp.rid = rid}

\* C11: in every state of the relay GET / is served, and every GET / received
\* was answered with status 200 and success true.
C11_HealthAlwaysServed ==
    /\ relayUp
    /\ \A rid \in RelayGets :
          \E resp \in ResponsesTo(rid) : resp.status = 200 /\ resp.success

\* C12: a POST /upload with k >= 1 files makes exactly one provider call, with
\* the path of the first file; when the call succeeds the relay answers exactly
\* once, with status 200 and {success: true, result} where result is the
\* provider's response.
C12_RelayForwarding ==
    /\ [](\A rid \in RelayPosts : relayFiles[rid].files >= 1 =>
            /\ {c \in relayCalls : c.rid = rid} = {[rid |-> rid, path |-> <<rid, 1>>]}
            /\ Cardinality(ResponsesTo(rid)) <= 1)
    /\ [][\A rid \in relayPending : \A res \in ProviderResults :
             providerResolves(rid, res) =>
                /\ ResponsesTo(rid) = {}
                /\ relayResponses' = relayResponses \cup
                      {[rid |-> rid, route |-> "POST /upload", status |-> 200,
                        success |-> TRUE, result |-> res]}
                /\ relayCalls' = relayCalls]_vars
\* A POST /upload with two files was forwarded and answered.
C12_Witness ==
    \E rid \in RelayPosts :
        /\ relayFiles[rid].files = 2
        /\ \E resp \in ResponsesTo(rid) : resp.status = 200 /\ resp.result \in ProviderResults

\* C13: a POST /upload whose provider call failed gets no response, and the
\* failure is recorded as a fault nothing caught.
C13_ProviderFailureUnanswered ==
    /\ [](\A rid \in relayFaults : ResponsesTo(rid) = {})
    /\ [][\A rid \in relayPending : \A o \in FaultOutcomes :
             providerRejects(rid, o) =>
                 /\ rid \in relayFaults'
                 /\ relayResponses' = relayResponses]_vars
\* The provider call of a request with a file has failed and the relay runs on.
C13_Witness ==
    \E rid \in relayFaults : relayFiles[rid].files >= 1 /\ relayUp

\* Blob URLs allocated so far.
Allocated == 1..nextUrl
\* No two items of the list share an id, and no request in flight carries the
\* id of an item it was not issued for.
DistinctIds ==
    /\ \A i, j \in Items : selectedFiles[i].id = selectedFiles[j].id => i = j
    /\ \A r \in requests : \A i \in Items :
          r.id = selectedFiles[i].id => r.url = selectedFiles[i].url

\* C14: every preview URL whose item has left the list is revoked, and so is
\* every preview URL once the component has unmounted; after clear the list is
\* empty, 'uploading' is false and every URL allocated so far is revoked.
C14_PreviewsReleased ==
    /\ [](\A u \in Allocated :
            (u \notin previewUrls(selectedFiles) \/ ~mounted) => u \in revoked)
    /\ [][resetUploader =>
             /\ selectedFiles' = <<>>
             /\ ~uploading'
             /\ Allocated \subseteq revoked']_vars
\* Two files were dropped and the list was cleared.
C14_Witness ==
    /\ mounted
    /\ nextUrl = 2
    /\ added = 0
    /\ Len(selectedFiles) = 0
    /\ revoked = {1, 2}

\* C15: at most one request is in flight for any item.
C15_NoOverlappingUploads ==
    \A r1, r2 \in requests : r1.url = r2.url => r1 = r2

\* C16: the preview URL of an item of the list is not revoked.
C16_PreviewValidWhileListed ==
    \A i \in Items : selectedFiles[i].url \notin revoked

\* C17: an item with status success keeps status success, progress 100 and its
\* remote URL for as long as it is in the list (stated for lists whose ids are
\* distinct).
C17_SuccessIsFinal ==
    [][DistinctIds =>
          \A i \in Items : \A j \in 1..Len(selectedFiles') :
              (selectedFiles[i].status = "success" /\ selectedFiles'[j].url = selectedFiles[i].url)
                 => /\ selectedFiles'[j].status = "success"
                    /\ selectedFiles'[j].progress = 100
                    /\ selectedFiles'[j].remoteUrl = selectedFiles[i].remoteUrl]_vars

\* C18: a pending item has progress 0 and no remote URL, an item in error has
\* progress 0, a succeeded item has progress 100 and a remote URL of a response.
C18_StatusProgressConsistent ==
    \A i \in Items :
        /\ selectedFiles[i].status = "pending" =>
              (selectedFiles[i].progress = 0 /\ selectedFiles[i].remoteUrl = NoUrl)
        /\ selectedFiles[i].status = "error" => selectedFiles[i].progress = 0
        /\ selectedFiles[i].status = "success" =>
              (selectedFiles[i].progress = 100 /\ selectedFiles[i].remoteUrl \in RemoteUrls)
\* A list holding a succeeded item and one whose request failed after a
\* progress event.
C18_Witness ==
    \E i, j \in Items :
        /\ selectedFiles[i].status = "success"
        /\ selectedFiles[j].status = "error"
        /\ \E b \in Batches : batches[b].failed > 0

\* C19: when every request in flight is eventually answered, the requests in
\* flight eventually run out with 'uploading' false and no item left in status
\* uploading; and the answer to a request leaves its item, if still in the list,
\* in status success or error.
C19_BatchTerminates ==
    /\ (requests # {}) ~>
          (/\ requests = {}
           /\ ~uploading
           /\ \A i \in Items : selectedFiles[i].status # "uploading")
    /\ [][\A r \in requests : r \notin requests' =>
             \A j \in 1..Len(selectedFiles') :
                 selectedFiles'[j].url = r.url =>
                     selectedFiles'[j].status \in {"success", "error"}]_vars
\* A batch has ended with one item succeeded and one failed.
C19_Witness ==
    /\ requests = {}
    /\ ~uploading
    /\ Len(batches) >= 1
    /\ \E i, j \in Items :
          /\ selectedFiles[i].status = "success"
          /\ selectedFiles[j].status = "error"

====
